---------------------------- MODULE Spec2Model ----------------------------
(***************************************************************************)
(* Model of src/app.py: the credit-card rates dashboard.  One script run   *)
(* (one user interaction) validates the date range, acquires the data      *)
(* (FRED API per series, or the synthetic generator), merges it and        *)
(* renders it.  The three data functions are wrapped by st.cache_data      *)
(* with a time-to-live of 6 hours.                                         *)
(*                                                                         *)
(* Conventions.  A date is a tuple <<year, month, day>>.  A text (an ISO   *)
(* date string, a FRED value token) is a sequence of one-character         *)
(* strings.  A rate is an integer number of tenths of a percent wrapped    *)
(* in a record, so that the missing value NaN is a value of the same       *)
(* shape.  Display names and messages are written without accents.         *)
(***************************************************************************)
EXTENDS Integers, Sequences, FiniteSets, TLC

(***************************************************************************)
(* Bounds of the model.                                                    *)
(***************************************************************************)
\* longest "observations" list the upstream returns
MaxObs == 2
\* cached calls a session may hold before the user presses the refresh button
MaxCalls == 2
\* hours a session may last before the user presses the refresh button
MaxHours == 6

(***************************************************************************)
(* Dates.                                                                  *)
(***************************************************************************)
DateKey(d) == d[1] * 10000 + d[2] * 100 + d[3]

\* datetime.date comparison (start_date <= end_date)
DateLE_YearOnly(a, b) == a[1] <= b[1]

DateLE(a, b) == DateKey(a) <= DateKey(b)

IsLeap(y) == (y % 4 = 0 /\ y % 100 # 0) \/ y % 400 = 0

DaysInMonth(y, m) ==
    IF m = 2 THEN (IF IsLeap(y) THEN 29 ELSE 28)
    ELSE IF m \in {4, 6, 9, 11} THEN 30 ELSE 31

Digits == <<"0", "1", "2", "3", "4", "5", "6", "7", "8", "9">>
DigitChar(n) == Digits[n + 1]
IsDigit(c) == \E n \in 0..9 : Digits[n + 1] = c
DigitVal(c) == CHOOSE n \in 0..9 : Digits[n + 1] = c

\* date.strftime('%Y-%m-%d')
strftime(d) ==
    << DigitChar(d[1] \div 1000), DigitChar((d[1] \div 100) % 10),
       DigitChar((d[1] \div 10) % 10), DigitChar(d[1] % 10), "-",
       DigitChar(d[2] \div 10), DigitChar(d[2] % 10), "-",
       DigitChar(d[3] \div 10), DigitChar(d[3] % 10) >>

\* pd.to_datetime on an ISO 'YYYY-MM-DD' text
to_datetime(s) ==
    << 1000 * DigitVal(s[1]) + 100 * DigitVal(s[2]) + 10 * DigitVal(s[3]) + DigitVal(s[4]),
       10 * DigitVal(s[6]) + DigitVal(s[7]),
       10 * DigitVal(s[9]) + DigitVal(s[10]) >>

\* the dates of a set, ascending (a pandas DatetimeIndex built by union or date_range)
RECURSIVE SortDates(_)
SortDates(S) ==
    IF S = {} THEN <<>>
    ELSE LET m == CHOOSE x \in S : \A y \in S : DateKey(x) <= DateKey(y)
         IN  <<m>> \o SortDates(S \ {m})

Range(s) == {s[i] : i \in DOMAIN s}

(***************************************************************************)
(* Values and tables.                                                      *)
(***************************************************************************)
NaN == [isna |-> TRUE, v |-> 0]
Num(x) == [isna |-> FALSE, v |-> x]

\* pd.DataFrame(): no rows, no columns
EmptyFrame == [index |-> <<>>, columns |-> <<>>, val |-> <<>>]

\* DataFrame.empty: some axis has length 0
IsEmpty(df) == Len(df.index) = 0 \/ Len(df.columns) = 0


\* the frame with the given index and named columns; cell[<<c, d>>] is the value
\* of column c at date d
Frame(index, columns, cell) ==
    [index |-> index, columns |-> columns,
     val |-> [c \in Range(columns) |-> [d \in Range(index) |-> cell[<<c, d>>]]]]

(***************************************************************************)
(* Remote Fetcher: fetch_fred_data_api.                                    *)
(***************************************************************************)
\* the series, in the order SERIES_IDS.items() yields them: <<display name, series id>>
SERIES_IDS ==
    << <<"Taxa de Inadimplencia (%)", "DRCCLACBS">>,
       <<"Taxa de Baixa por Prejuizo (%)", "CORCCACBS">> >>

RECURSIVE DigitsVal(_)
DigitsVal(s) ==
    IF s = <<>> THEN 0
    ELSE 10 * DigitsVal(SubSeq(s, 1, Len(s) - 1)) + DigitVal(s[Len(s)])

\* whether float() accepts the token: digits with at most one decimal point
IsNumeric(tok) ==
    /\ \A i \in DOMAIN tok : IsDigit(tok[i]) \/ tok[i] = "."
    /\ \E i \in DOMAIN tok : IsDigit(tok[i])
    /\ Cardinality({i \in DOMAIN tok : tok[i] = "."}) <= 1

\* the number a numeric token denotes, in tenths (tokens carry at most one decimal)
TokenTenths(tok) ==
    LET dots == {i \in DOMAIN tok : tok[i] = "."}
        p == IF dots = {} THEN Len(tok) + 1 ELSE CHOOSE i \in dots : TRUE
    IN  10 * DigitsVal(SubSeq(tok, 1, p - 1))
          + (IF p + 1 <= Len(tok) THEN DigitVal(tok[p + 1]) ELSE 0)

\* the same with unparsable values filled with zero
to_numeric_ZeroFill(tok) == IF IsNumeric(tok) THEN Num(TokenTenths(tok)) ELSE Num(0)

\* pd.to_numeric(..., errors='coerce') on one value
to_numeric(tok) == IF IsNumeric(tok) THEN Num(TokenTenths(tok)) ELSE NaN

\* the request URL of the call
Url(series_id, start_text, end_text, api_key) ==
    [series_id |-> series_id,
     api_key |-> IF api_key # "" THEN <<api_key>> ELSE <<>>,
     file_type |-> "json",
     observation_start |-> start_text,
     observation_end |-> end_text]

\* a response of requests.get: it raises, or has a status and (on a JSON body)
\* possibly an "observations" list of {date, value} records
Response(raises, status, has_obs, observations) ==
    [raises |-> raises, status |-> status, has_obs |-> has_obs,
     observations |-> observations]

\* df = DataFrame(observations); to_datetime; to_numeric; set_index('date'); df[['value']]
ObservationsFrame(obs) ==
    LET dateOf(i) == to_datetime(obs[i].date)
        index == [i \in DOMAIN obs |-> dateOf(i)]
        cell == [x \in {"value"} \X Range(index) |->
                   to_numeric(obs[CHOOSE i \in DOMAIN obs : dateOf(i) = x[2]].value)]
    IN  Frame(index, <<"value">>, cell)

\* what the function returns and what it shows (st.error) on a given response
fetch_fred_data_api(resp) ==
    IF resp.raises
    THEN [df |-> EmptyFrame, msgs |-> <<"Erro ao buscar dados via API">>]
    ELSE IF resp.status = 200 /\ resp.has_obs
    THEN IF resp.observations = <<>>
         \* DataFrame([]) has no 'date' column: KeyError, caught by the except
         THEN [df |-> EmptyFrame, msgs |-> <<"Erro ao buscar dados via API">>]
         ELSE [df |-> ObservationsFrame(resp.observations), msgs |-> <<>>]
    ELSE [df |-> EmptyFrame, msgs |-> <<>>]

(***************************************************************************)
(* Synthetic Generator: create_sample_data.                                *)
(***************************************************************************)
\* pd.date_range(start, end, freq='M'): the month-ends within [start, end],
\* ascending.  Months are counted from year 0; the month-end of the first month
\* is never before start, that of the last month is in the range only when end
\* is itself a month-end.
MonthEnd(k) == <<k \div 12, (k % 12) + 1, DaysInMonth(k \div 12, (k % 12) + 1)>>

\* the same with the end date excluded
date_range_ExclusiveEnd(start, end) ==
    LET first == start[1] * 12 + start[2] - 1
        last == end[1] * 12 + end[2] - 2
    IN  [i \in 1..(last - first + 1) |-> MonthEnd(first + i - 1)]

date_range(start, end) ==
    LET first == start[1] * 12 + start[2] - 1
        last == IF end[3] = DaysInMonth(end[1], end[2])
                THEN end[1] * 12 + end[2] - 1
                ELSE end[1] * 12 + end[2] - 2
    IN  [i \in 1..(last - first + 1) |-> MonthEnd(first + i - 1)]

\* The k-th standard-normal draw after np.random.seed(42), in whole standard
\* deviations.  The seeded stream is one fixed sequence; its values are not
\* in the source, so the stream is one of these and never changes.
Streams == {"low", "mixed"}
StdNormal(stream, k) ==
    IF stream = "low" THEN -3
    ELSE IF k % 2 = 0 THEN 2 ELSE -1

Max(a, b) == IF a >= b THEN a ELSE b

IndexOf(s, x) == CHOOSE i \in DOMAIN s : s[i] = x

create_sample_data(start, end, stream) ==
    LET dates == date_range(start, end)
        n == Len(dates)
        adjA(d) == IF 2008 <= d[1] /\ d[1] <= 2010 THEN 25
                   ELSE IF d[1] = 2020 THEN 15 ELSE 0
        adjB(d) == IF 2008 <= d[1] /\ d[1] <= 2010 THEN 30
                   ELSE IF d[1] = 2020 THEN 20 ELSE 0
        columns == <<SERIES_IDS[1][1], SERIES_IDS[2][1]>>
        cell == [x \in Range(columns) \X Range(dates) |->
                   LET i == IndexOf(dates, x[2])
                   IN  IF x[1] = SERIES_IDS[1][1]
                       THEN Num(Max(35 + 15 * StdNormal(stream, i) + adjA(x[2]), 5))
                       ELSE Num(Max(42 + 18 * StdNormal(stream, n + i) + adjB(x[2]), 5))]
    IN  Frame(dates, columns, cell)

(***************************************************************************)
(* Messages (st.error, st.warning).                                        *)
(***************************************************************************)
InvalidRange == <<"error", "A data de inicio deve ser anterior ou igual a data de fim.">>
NoKeyWarning == <<"warning", "Chave da API FRED nao fornecida. Usando dados simulados.">>
NoDataWarning == <<"warning", "Nao foi possivel carregar os dados.">>
FetchError(msg) == <<"error", msg>>

(***************************************************************************)
(* Orchestrator: merge and display.                                        *)
(***************************************************************************)
\* pd.DataFrame(all_series): all_series is the dict, as <<name, frame>> pairs in
\* insertion order; the index is the union of the series' dates, a date a
\* series lacks is NaN in its column
MergeSeries_InnerJoin(all_series) ==
    LET common == {d \in UNION {Range(all_series[i][2].index) : i \in DOMAIN all_series} :
                     \A i \in DOMAIN all_series : d \in Range(all_series[i][2].index)}
        columns == [i \in DOMAIN all_series |-> all_series[i][1]]
        cell == [x \in Range(columns) \X common |->
                   all_series[CHOOSE i \in DOMAIN all_series :
                                all_series[i][1] = x[1]][2].val["value"][x[2]]]
    IN  Frame(SortDates(common), columns, cell)

MergeSeries(all_series) ==
    LET index == SortDates(UNION {Range(all_series[i][2].index) : i \in DOMAIN all_series})
        columns == [i \in DOMAIN all_series |-> all_series[i][1]]
        cell == [x \in Range(columns) \X Range(index) |->
                   LET s == all_series[CHOOSE i \in DOMAIN all_series :
                                         all_series[i][1] = x[1]][2]
                   IN  IF x[2] \in Range(s.index) THEN s.val["value"][x[2]] ELSE NaN]
    IN  Frame(index, columns, cell)

\* the last n entries of a sequence (tail(n))
Tail_n(s, n) == SubSeq(s, Max(1, Len(s) - n + 1), Len(s))

Reverse(s) == [i \in DOMAIN s |-> s[Len(s) + 1 - i]]

\* data[c].dropna(), restricted to the rows `rows`: the values present, in row order
DropNa(data, c, rows) ==
    LET present(x) == ~x.isna
        kept == SelectSeq([i \in DOMAIN rows |-> data.val[c][rows[i]]], present)
    IN  [i \in DOMAIN kept |-> kept[i].v]

RECURSIVE Sum(_)
Sum(s) == IF s = <<>> THEN 0 ELSE Head(s) + Sum(Tail(s))

MaxOf(s) == CHOOSE x \in Range(s) : \A y \in Range(s) : x >= y
MinOf(s) == CHOOSE x \in Range(s) : \A y \in Range(s) : x <= y

\* one statistics column: nothing when the column is not in the table; an
\* IndexError (iloc[-1] of an empty series) when every value is missing.  The
\* mean is in hundredths, the other metrics in tenths.
Metrics(data, c) ==
    IF c \notin Range(data.columns) THEN [raised |-> FALSE, out |-> <<>>]
    ELSE LET col == DropNa(data, c, data.index)
         IN  IF col = <<>>
             THEN [raised |-> TRUE, out |-> <<>>]
             ELSE [raised |-> FALSE,
                   out |-> << <<"metric", c, "Atual", col[Len(col)]>>,
                              <<"metric", c, "Media", (10 * Sum(col)) \div Len(col)>>,
                              <<"metric", c, "Maximo", MaxOf(col)>>,
                              <<"metric", c, "Minimo", MinOf(col)>> >>]

\* the trend of one column between two row windows: the sign of the change of
\* the means (mean() skips missing values and is NaN when none is left; a NaN
\* change is neither > 0 nor < 0)
TrendOf(data, c, recent, previous) ==
    LET r == DropNa(data, c, recent)
        q == DropNa(data, c, previous)
    IN  IF r = <<>> \/ q = <<>> THEN "flat"
        ELSE IF Sum(r) * Len(q) > Sum(q) * Len(r) THEN "up"
        ELSE IF Sum(r) * Len(q) < Sum(q) * Len(r) THEN "down"
        ELSE "flat"

Trends(data) ==
    LET n == Len(data.index)
    IN  IF n >= 12
        THEN LET recent_12m == Tail_n(data.index, 12)
                 previous_12m == IF n >= 24 THEN SubSeq(data.index, n - 23, n - 12)
                                 ELSE SubSeq(data.index, 1, 12)
             IN  [i \in DOMAIN data.columns |->
                    <<"trend", data.columns[i],
                      TrendOf(data, data.columns[i], recent_12m, previous_12m)>>]
        ELSE <<>>

\* lines 217-285: what the display shows for a table, and whether it raised
Display(data) ==
    IF IsEmpty(data)
    THEN [raised |-> FALSE, out |-> <<NoDataWarning>>]
    ELSE LET head == << <<"chart", data.index, data.columns>>,
                        <<"recent", Reverse(Tail_n(data.index, 12))>> >>
             m1 == Metrics(data, SERIES_IDS[1][1])
             m2 == Metrics(data, SERIES_IDS[2][1])
         IN  IF m1.raised
             THEN [raised |-> TRUE, out |-> head]
             ELSE IF m2.raised
             THEN [raised |-> TRUE, out |-> head \o m1.out]
             ELSE [raised |-> FALSE,
                   out |-> head \o m1.out \o m2.out
                             \o << <<"trend_header">> >> \o Trends(data)]

(***************************************************************************)
(* st.cache_data(ttl=6*60*60): one cache per decorated function, keyed by   *)
(* the call's arguments; an entry is the returned value (with the messages *)
(* the function showed, which a hit replays) and the time it was stored.   *)
(***************************************************************************)
TTL == 6 * 60 * 60
Hour == 60 * 60

\* the waits between two runs, in hours
Waits == {2, 4}

EmptyCache == [k \in {} |-> 0]

\* the same with an entry still served at the very end of its time-to-live
Fresh_Inclusive(cache, key, t) == key \in DOMAIN cache /\ t - cache[key].stamp <= TTL

\* a stored entry is served while it is younger than the time-to-live
Fresh(cache, key, t) == key \in DOMAIN cache /\ t - cache[key].stamp < TTL

Store(cache, key, value, t) ==
    [k \in DOMAIN cache \cup {key} |->
        IF k = key THEN [value |-> value, stamp |-> t] ELSE cache[k]]

(***************************************************************************)
(* The inputs of the model: widget values and upstream responses.          *)
(***************************************************************************)
\* os.getenv('API_FRED') and the manual text input: absent/empty, or a key
Keys == {"", "KEY"}

\* the two orders of the data-source selectbox
Options(api_key) ==
    IF api_key # "" THEN <<"FRED API", "Dados Simulados (Demo)">>
    ELSE <<"Dados Simulados (Demo)", "FRED API">>

\* date-picker values, within [1980-01-01, today]
DateChoices == { <<2010, 12, 31>>, <<2019, 2, 1>>, <<2020, 1, 15>>, <<2020, 1, 31>> }

\* observation dates and value tokens the upstream returns
ObsDates == { <<2020, 1, 1>>, <<2020, 2, 1>>, <<2020, 3, 1>> }
Tokens == { <<"3", ".", "5">>, <<".">>, <<"0">> }

Observations == [date : {strftime(d) : d \in ObsDates}, value : Tokens]

\* observation lists of the documented shape: dated records, ascending by date
ObsLists ==
    {obs \in UNION {[1..k -> Observations] : k \in 0..MaxObs} :
        \A i \in 1..(Len(obs) - 1) :
            DateKey(to_datetime(obs[i].date)) < DateKey(to_datetime(obs[i + 1].date))}

\* what one requests.get can come to: an exception (transport, or a body that is
\* not JSON), a non-success status, a 200 body without "observations", a 200
\* body with an observation list
Responses ==
    {Response(TRUE, 0, FALSE, <<>>), Response(FALSE, 404, FALSE, <<>>),
     Response(FALSE, 200, FALSE, <<>>)}
      \cup {Response(FALSE, 200, TRUE, obs) : obs \in ObsLists}

(***************************************************************************)
(* State.                                                                  *)
(***************************************************************************)
VARIABLES
    pc,            \* position of the run: idle, validate, fetch, generate, display, done, crashed
    fred_api_key,  \* the key in effect (environment, else the manual input)
    start_date,
    end_date,
    sel_index,     \* index chosen in the data-source selectbox (0 is the default)
    data_source,
    todo,          \* the series the fetch loop has still to visit
    all_series,    \* the dict the loop fills: <<name, frame>> pairs
    data,          \* the merged table
    ui,            \* what this run has shown, in order
    fred_cache,    \* cache of fetch_fred_data_api
    sample_cache,  \* cache of create_sample_data
    now,           \* seconds since the caches were last cleared
    stream,        \* the seeded random stream
    http,          \* the HTTP requests this run issued
    fetched,       \* the fetcher calls of this run: series, response (if any), result, hit
    generated,     \* the generator calls of this run
    history        \* the cached calls since the caches were last cleared

vars ==
    << pc, fred_api_key, start_date, end_date, sel_index, data_source, todo,
       all_series, data, ui, fred_cache, sample_cache, now, stream, http,
       fetched, generated, history >>

Init ==
    /\ pc = "idle"
    /\ fred_api_key = ""
    /\ start_date = <<1990, 1, 1>>
    /\ end_date = <<1990, 1, 1>>
    /\ sel_index = 0
    /\ data_source = Options("")[1]
    /\ todo = <<>>
    /\ all_series = <<>>
    /\ data = EmptyFrame
    /\ ui = <<>>
    /\ fred_cache = EmptyCache
    /\ sample_cache = EmptyCache
    /\ now = 0
    /\ stream \in Streams
    /\ http = <<>>
    /\ fetched = <<>>
    /\ generated = <<>>
    /\ history = <<>>

\* whether this run has shown an element of the kind
Shown(kind) == \E i \in DOMAIN ui : ui[i][1] = kind

(***************************************************************************)
(* The decisions of the orchestration, lines 191-215.                      *)
(***************************************************************************)
\* Where a valid range leads: the fetch loop in FRED API mode with a key, the
\* generator with a warning in FRED API mode without one, else the generator.
SourceFor_Anonymous(source, api_key) ==
    IF source = "FRED API" THEN "fetch" ELSE "generate"

SourceFor(source, api_key) ==
    IF source = "FRED API"
    THEN (IF api_key # "" THEN "fetch" ELSE "fallback")
    ELSE "generate"

\* if not series_data.empty: all_series[name] = series_data['value']
Collect(series, name, result) ==
    IF ~IsEmpty(result.df) THEN Append(series, <<name, result.df>>) ELSE series

\* the loop goes on to the next series whatever the call returned
Remaining_StopOnFailure(pending, result) ==
    IF IsEmpty(result.df) THEN <<>> ELSE Tail(pending)

Remaining(pending, result) == Tail(pending)

(***************************************************************************)
(* Actions.                                                                *)
(***************************************************************************)
\* Lines 126-171: a script run starts.  The key comes from the environment or,
\* when that is absent, from the manual input; the widgets give the dates and
\* the data source.  A session goes on over warm caches while it has made at
\* most maxWarm cached calls since the caches were last cleared.
Rerun(K, D, maxWarm) ==
    /\ pc = "idle"
    /\ Len(history) <= maxWarm
    /\ \E env \in K, typed \in K, s \in D, e \in D, idx \in {0, 1} :
         LET key == IF env # "" THEN env ELSE typed
         IN  /\ fred_api_key' = key
             /\ start_date' = s
             /\ end_date' = e
             /\ sel_index' = idx
             /\ data_source' = Options(key)[idx + 1]
             /\ ui' = << <<IF env # "" THEN "sidebar_success" ELSE "sidebar_warning">> >>
    /\ pc' = "validate"
    /\ UNCHANGED << todo, all_series, data, http, fetched, generated, stream,
                    fred_cache, sample_cache, history, now >>

\* Lines 174-176: the refresh button.  Every cache is cleared and the script
\* is run again.
Refresh ==
    /\ pc = "idle"
    /\ fred_cache' = EmptyCache
    /\ sample_cache' = EmptyCache
    /\ history' = <<>>
    /\ now' = 0
    /\ UNCHANGED << pc, fred_api_key, start_date, end_date, sel_index, data_source,
                    todo, all_series, data, ui, stream, http, fetched, generated >>

\* Lines 191-197, 210-215, 286-287: the range check and the choice of the source.
Validate ==
    /\ pc = "validate"
    /\ IF DateLE(start_date, end_date)
       THEN LET to == SourceFor(data_source, fred_api_key)
            IN  /\ pc' = IF to = "fetch" THEN "fetch" ELSE "generate"
                /\ todo' = IF to = "fetch" THEN SERIES_IDS ELSE todo
                /\ ui' = IF to = "fallback" THEN Append(ui, NoKeyWarning) ELSE ui
       ELSE /\ ui' = Append(ui, InvalidRange)
            /\ pc' = "done"
            /\ todo' = todo
    /\ UNCHANGED << fred_api_key, start_date, end_date, sel_index, data_source,
                    all_series, data, fred_cache, sample_cache, now, stream,
                    http, fetched, generated, history >>

\* Lines 198-206: one turn of the loop over SERIES_IDS, through the cache of
\* fetch_fred_data_api.  A fresh entry is returned and its messages replayed; if
\* there is none the function runs: one HTTP request, whose response is any of R.
FetchNext(R) ==
    /\ pc = "fetch"
    /\ todo # <<>>
    /\ LET name == Head(todo)[1]
           series_id == Head(todo)[2]
           start_text == strftime(start_date)
           end_text == strftime(end_date)
           key == <<series_id, start_text, end_text, fred_api_key>>
           Deliver(result, hit, resp) ==
               /\ ui' = ui \o [i \in DOMAIN result.msgs |-> FetchError(result.msgs[i])]
               /\ all_series' = Collect(all_series, name, result)
               /\ todo' = Remaining(todo, result)
               /\ fetched' = Append(fetched, [series_id |-> series_id, name |-> name,
                                              resp |-> resp, result |-> result, hit |-> hit])
               /\ history' = Append(history, [fn |-> "fetch_fred_data_api", key |-> key,
                                              time |-> now, hit |-> hit, result |-> result])
       IN  IF Fresh(fred_cache, key, now)
           THEN /\ Deliver(fred_cache[key].value, TRUE, <<>>)
                /\ UNCHANGED <<fred_cache, http>>
           ELSE \E resp \in R :
                  /\ Deliver(fetch_fred_data_api(resp), FALSE, <<resp>>)
                  /\ fred_cache' = Store(fred_cache, key, fetch_fred_data_api(resp), now)
                  /\ http' = Append(http, Url(series_id, start_text, end_text, fred_api_key))
    /\ UNCHANGED << pc, fred_api_key, start_date, end_date, sel_index, data_source,
                    data, sample_cache, now, stream, generated >>

\* Lines 208-209: after the loop, the columns collected are merged.
Merge ==
    /\ pc = "fetch"
    /\ todo = <<>>
    /\ data' = IF all_series # <<>> THEN MergeSeries(all_series) ELSE data
    /\ pc' = "display"
    /\ UNCHANGED << fred_api_key, start_date, end_date, sel_index, data_source, todo,
                    all_series, ui, fred_cache, sample_cache, now, stream, http,
                    fetched, generated, history >>

\* Lines 212 and 215: create_sample_data(start_date, end_date), through its cache.
Generate ==
    /\ pc = "generate"
    /\ LET key == <<start_date, end_date>>
           hit == Fresh(sample_cache, key, now)
           result == IF hit THEN sample_cache[key].value
                     ELSE create_sample_data(start_date, end_date, stream)
       IN  /\ data' = result
           /\ sample_cache' = IF hit THEN sample_cache
                              ELSE Store(sample_cache, key, result, now)
           /\ generated' = Append(generated, [start |-> start_date, end |-> end_date,
                                              hit |-> hit])
           /\ history' = Append(history, [fn |-> "create_sample_data", key |-> key,
                                          time |-> now, hit |-> hit, result |-> result])
    /\ pc' = "display"
    /\ UNCHANGED << fred_api_key, start_date, end_date, sel_index, data_source, todo,
                    all_series, ui, fred_cache, now, stream, http, fetched >>

\* Lines 217-285: the display.  An exception that nothing catches ends the run.
Render ==
    /\ pc = "display"
    /\ LET d == Display(data)
       IN  /\ ui' = ui \o d.out \o (IF d.raised THEN << <<"exception", "IndexError">> >>
                                    ELSE <<>>)
           /\ pc' = IF d.raised THEN "crashed" ELSE "done"
    /\ UNCHANGED << fred_api_key, start_date, end_date, sel_index, data_source, todo,
                    all_series, data, fred_cache, sample_cache, now, stream, http,
                    fetched, generated, history >>

\* The run is over, normally or by the exception: its globals are dropped and
\* the page waits for the next interaction.  Only the caches outlive a run.
Finish ==
    /\ pc \in {"done", "crashed"}
    /\ pc' = "idle"
    /\ fred_api_key' = ""
    /\ start_date' = <<1990, 1, 1>>
    /\ end_date' = <<1990, 1, 1>>
    /\ sel_index' = 0
    /\ data_source' = Options("")[1]
    /\ todo' = <<>>
    /\ all_series' = <<>>
    /\ data' = EmptyFrame
    /\ ui' = <<>>
    /\ http' = <<>>
    /\ fetched' = <<>>
    /\ generated' = <<>>
    /\ UNCHANGED <<fred_cache, sample_cache, now, stream, history>>

\* Time passes between two script runs.
Tick ==
    /\ pc = "idle"
    /\ \E h \in Waits :
         /\ now + h * Hour <= MaxHours * Hour
         /\ now' = now + h * Hour
    /\ UNCHANGED << pc, fred_api_key, start_date, end_date, sel_index, data_source,
                    todo, all_series, data, ui, fred_cache, sample_cache, stream,
                    http, fetched, generated, history >>

(***************************************************************************)
(* Specifications.                                                         *)
(***************************************************************************)
\* Every run starts from the refresh button, so from empty caches; the dates and
\* the upstream responses range over all of DateChoices and Responses.
Next ==
    \/ Refresh
    \/ Rerun(Keys, DateChoices, 0)
    \/ Validate
    \/ FetchNext(Responses)
    \/ Merge
    \/ Generate
    \/ Render
    \/ Finish

Spec == Init /\ [][Next]_vars

\* Sessions of several runs over warm caches, with time passing: the refresh
\* button is optional, and the dates and responses range over a few values.
CacheDates == { <<2020, 1, 15>>, <<2020, 1, 31>> }
CacheResponses ==
    {Response(FALSE, 404, FALSE, <<>>),
     Response(FALSE, 200, TRUE, << [date |-> strftime(<<2020, 1, 1>>), value |-> <<"3", ".", "5">>] >>)}

NextCache ==
    \/ Refresh
    \/ Rerun({"KEY"}, CacheDates, MaxCalls)
    \/ Validate
    \/ FetchNext(CacheResponses)
    \/ Merge
    \/ Generate
    \/ Render
    \/ Finish
    \/ Tick

SpecCache == Init /\ [][NextCache]_vars

(***************************************************************************)
(* Properties.                                                             *)
(***************************************************************************)
\* the run got past the range check / past the acquisition / to its end
Acquired == pc \in {"display", "done", "crashed"}
Finished == pc \in {"done", "crashed"}

\* start is a later calendar day than end, compared field by field
StartAfterEnd ==
    \/ start_date[1] > end_date[1]
    \/ start_date[1] = end_date[1] /\ start_date[2] > end_date[2]
    \/ start_date[1] = end_date[1] /\ start_date[2] = end_date[2]
         /\ start_date[3] > end_date[3]

KeyPresent == fred_api_key # ""
RemoteMode == data_source = "FRED API"

\* C1: a run whose start date is after its end date shows the invalid-range
\* error and acquires nothing: no fetcher call, no HTTP request, no generator
\* call, no chart.
C1_InvalidRangeAcquiresNothing ==
    (pc \notin {"idle", "validate"} /\ StartAfterEnd) =>
        /\ pc = "done"
        /\ InvalidRange \in Range(ui)
        /\ http = <<>>
        /\ fetched = <<>>
        /\ generated = <<>>
        /\ history = <<>>
        /\ ~Shown("chart")

C1_Witness ==
    /\ pc = "done"
    /\ start_date = <<2020, 1, 31>>
    /\ end_date = <<2020, 1, 15>>
    /\ ui[Len(ui)] = InvalidRange

\* C2: in FRED API mode with a valid range and no key, the run issues no HTTP
\* request, shows the fallback warning, and its table is the one the synthetic
\* generator returns for the range.
C2_NoKeyFallsBackToSynthetic ==
    (Acquired /\ ~StartAfterEnd /\ RemoteMode /\ ~KeyPresent) =>
        /\ http = <<>>
        /\ fetched = <<>>
        /\ NoKeyWarning \in Range(ui)
        /\ Len(generated) = 1
        /\ generated[1].start = start_date /\ generated[1].end = end_date
        /\ data = create_sample_data(start_date, end_date, stream)

C2_Witness ==
    /\ pc = "done"
    /\ RemoteMode /\ ~KeyPresent
    /\ NoKeyWarning \in Range(ui)
    /\ Shown("chart")
    /\ Len(data.index) >= 12

\* C3: in FRED API mode with a key, both series are requested, one after the
\* other, whatever the first call returned, and every series whose call returned
\* a non-empty column is a column of the merged table, under its display name
\* and with its values.
C3_FetchesAreIndependent ==
    (Acquired /\ ~StartAfterEnd /\ RemoteMode /\ KeyPresent) =>
        /\ [i \in DOMAIN fetched |-> fetched[i].series_id] = <<"DRCCLACBS", "CORCCACBS">>
        /\ \A i \in DOMAIN fetched :
             LET r == fetched[i].result.df
             IN  ~IsEmpty(r) =>
                   /\ fetched[i].name = SERIES_IDS[i][1]
                   /\ fetched[i].name \in Range(data.columns)
                   /\ \A d \in Range(r.index) :
                        data.val[fetched[i].name][d] = r.val["value"][d]

C3_Witness ==
    /\ Acquired /\ RemoteMode /\ KeyPresent
    /\ Len(fetched) = 2
    /\ fetched[1].resp = <<Response(TRUE, 0, FALSE, <<>>)>>
    /\ ~IsEmpty(fetched[2].result.df)
    /\ data.columns = <<SERIES_IDS[2][1]>>

\* a fetcher call that failed: the request raised, or its status was not 200
Failed(call) ==
    call.resp # <<>> /\ (call.resp[1].raises \/ call.resp[1].status # 200)

\* the whole display of a non-empty table: chart, recent table, the statistics
\* of every column, the trend section
CompleteDisplay ==
    /\ Shown("chart")
    /\ Shown("recent")
    /\ Shown("trend_header")
    /\ \A c \in Range(data.columns) :
         \E i \in DOMAIN ui : ui[i][1] = "metric" /\ ui[i][2] = c /\ ui[i][3] = "Atual"

\* C4: every failed fetcher call, by status or by exception, returns an empty
\* result and the run shows a warning or error message for it, also when the
\* other series was fetched and the chart is rendered.  (Stated of the runs
\* that end normally; any warning or error of the run counts.)
C4_FailuresAreSurfaced ==
    pc = "done" =>
        \A i \in DOMAIN fetched :
            Failed(fetched[i]) =>
                /\ IsEmpty(fetched[i].result.df)
                /\ Shown("error") \/ Shown("warning")

\* C5: a run over a valid range renders the chart and the rest of the display
\* exactly when the merged table is non-empty, shows the could-not-load message
\* and no chart when it is empty, and so ends in one of Error, Empty, Ready.
C5_ExactlyOneOutcome ==
    (Finished /\ ~StartAfterEnd) =>
        /\ pc = "done"
        /\ ~IsEmpty(data) <=> CompleteDisplay
        /\ ~IsEmpty(data) <=> Shown("chart")
        /\ IsEmpty(data) <=> NoDataWarning \in Range(ui)

\* C6: no run ends by an unhandled exception: it ends with a message to the
\* user or with the complete display.
C6_NoUnhandledException ==
    Finished =>
        /\ pc = "done"
        /\ \/ InvalidRange \in Range(ui)
           \/ NoDataWarning \in Range(ui)
           \/ CompleteDisplay

\* the month-ends within [start_date, end_date], stated day by day
MonthEndsInRange ==
    {d \in {<<y, m, dd>> : y \in start_date[1]..end_date[1], m \in 1..12, dd \in 28..31} :
        /\ d[3] = DaysInMonth(d[1], d[2])
        /\ DateKey(start_date) <= DateKey(d)
        /\ DateKey(d) <= DateKey(end_date)}

DefaultNoKey == ~KeyPresent /\ sel_index = 0

\* C7 as claimed: with no key and the default mode, every valid range reaches
\* Ready: the chart is rendered from a table with both columns and one row
\* per month-end within the range.
C7_DefaultAlwaysReady ==
    (pc = "done" /\ DefaultNoKey /\ ~StartAfterEnd) =>
        /\ ~RemoteMode
        /\ Shown("chart")
        /\ data.columns = <<SERIES_IDS[1][1], SERIES_IDS[2][1]>>
        /\ Range(data.index) = MonthEndsInRange
        /\ Len(data.index) = Cardinality(MonthEndsInRange)

\* C7 amended: with no key and the default mode, the mode is synthetic and
\* the table has one row per month-end within the range; when the range holds a
\* month-end the run reaches Ready, with both columns and every value present,
\* and when it holds none the run ends in the could-not-load message, no chart.
C7_DefaultReadyWhenMonthEnd ==
    (Finished /\ DefaultNoKey /\ ~StartAfterEnd) =>
        /\ pc = "done"
        /\ ~RemoteMode
        /\ http = <<>>
        /\ data.columns = <<SERIES_IDS[1][1], SERIES_IDS[2][1]>>
        /\ Range(data.index) = MonthEndsInRange
        /\ Len(data.index) = Cardinality(MonthEndsInRange)
        /\ \A c \in Range(data.columns), d \in Range(data.index) : ~data.val[c][d].isna
        /\ IF MonthEndsInRange # {}
           THEN CompleteDisplay /\ NoDataWarning \notin Range(ui)
           ELSE ~Shown("chart") /\ NoDataWarning \in Range(ui)

C7_Witness ==
    /\ pc = "done" /\ DefaultNoKey
    /\ start_date = <<2019, 2, 1>> /\ end_date = <<2020, 1, 31>>
    /\ Shown("chart")
    /\ Len(data.index) = 12
    /\ data.index[12] = <<2020, 1, 31>>

\* what the documented tokens and date texts denote
Denotes(tok) ==
    CASE tok = <<"3", ".", "5">> -> Num(35)
      [] tok = <<"0">> -> Num(0)
      [] tok = <<".">> -> NaN

DateWritten(text) == CHOOSE d \in ObsDates : strftime(d) = text

\* C9: on a 200 response with an "observations" list the fetcher returns one
\* row per observation, indexed by the observation's date; a value that parses
\* as a number holds that number, one that does not is missing, in a row that
\* is kept.
C9_UnparsableValuesAreMissing ==
    \A i \in DOMAIN fetched :
        LET call == fetched[i]
        IN  (call.resp # <<>> /\ ~call.resp[1].raises /\ call.resp[1].status = 200
               /\ call.resp[1].has_obs) =>
              LET obs == call.resp[1].observations
                  df == call.result.df
              IN  /\ Len(df.index) = Len(obs)
                  /\ \A k \in DOMAIN obs :
                       /\ df.index[k] = DateWritten(obs[k].date)
                       /\ df.val["value"][df.index[k]] = Denotes(obs[k].value)

C9_Witness ==
    \E i \in DOMAIN fetched :
        /\ fetched[i].resp # <<>>
        /\ fetched[i].resp[1].observations =
             << [date |-> strftime(<<2020, 1, 1>>), value |-> <<"3", ".", "5">>],
                [date |-> strftime(<<2020, 2, 1>>), value |-> <<".">>] >>
        /\ fetched[i].result.df.index = << <<2020, 1, 1>>, <<2020, 2, 1>> >>
        /\ fetched[i].result.df.val["value"][<<2020, 2, 1>>].isna

\* the fetcher calls of the run that returned a non-empty column
NonEmptyCalls == {i \in DOMAIN fetched : ~IsEmpty(fetched[i].result.df)}

\* C10: the dates of the table merged in FRED API mode are the union of the
\* dates of the series that returned a non-empty column; at each date a column
\* holds its series' value when the series has the date and a missing value
\* when it does not.
C10_MergeIsOuterJoin ==
    (Acquired /\ ~StartAfterEnd /\ RemoteMode /\ KeyPresent /\ NonEmptyCalls # {}) =>
        /\ Range(data.index) =
             UNION {Range(fetched[i].result.df.index) : i \in NonEmptyCalls}
        /\ Len(data.index) = Cardinality(Range(data.index))
        /\ Range(data.columns) = {fetched[i].name : i \in NonEmptyCalls}
        /\ \A i \in NonEmptyCalls, d \in Range(data.index) :
             LET r == fetched[i].result.df
             IN  data.val[fetched[i].name][d] =
                   IF d \in Range(r.index) THEN r.val["value"][d] ELSE NaN

C10_Witness ==
    /\ Acquired /\ RemoteMode /\ KeyPresent
    /\ Len(fetched) = 2
    /\ fetched[1].result.df.index = << <<2020, 1, 1>>, <<2020, 2, 1>> >>
    /\ fetched[2].result.df.index = << <<2020, 2, 1>>, <<2020, 3, 1>> >>
    /\ data.index = << <<2020, 1, 1>>, <<2020, 2, 1>>, <<2020, 3, 1>> >>
    /\ data.val[SERIES_IDS[2][1]][<<2020, 1, 1>>].isna
    /\ data.val[SERIES_IDS[1][1]][<<2020, 3, 1>>].isna
    /\ ~data.val[SERIES_IDS[1][1]][<<2020, 2, 1>>].isna

\* the calls before the i-th of the history (all made since the caches were
\* last cleared) that had its function and arguments, ran the function, and
\* were made less than 6 hours before it
EarlierWithin6h(i) ==
    {j \in 1..(i - 1) :
        /\ history[j].fn = history[i].fn
        /\ history[j].key = history[i].key
        /\ ~history[j].hit
        /\ history[i].time - history[j].time < 6 * 3600}

\* C8: a call to a cached function returns the stored result of an earlier call,
\* without running the function (for the fetcher: without an HTTP request),
\* exactly when an earlier call with the same arguments ran the function less
\* than 6 hours before and the caches were not cleared in between, whatever
\* the stored result; otherwise the function runs again.
C8_HitExactlyWhenStoredWithin6h ==
    /\ \A i \in DOMAIN history :
         /\ history[i].hit <=> EarlierWithin6h(i) # {}
         /\ \A j \in EarlierWithin6h(i) : history[i].result = history[j].result
    /\ Len(http) = Cardinality({i \in DOMAIN fetched : ~fetched[i].hit})
    /\ \A i \in DOMAIN fetched : fetched[i].hit <=> fetched[i].resp = <<>>

C8_Witness ==
    \E i \in DOMAIN history :
        /\ history[i].fn = "fetch_fred_data_api"
        /\ history[i].hit
        /\ IsEmpty(history[i].result.df)
        /\ history[i].time = 4 * 3600
        /\ http = <<>>
        /\ Len(fetched) = 2

=============================================================================
